---- MODULE Spec2Model ----
(***************************************************************************)
(* Model of src/weather.py: the request handler that geocodes a city,      *)
(* fetches the current weather and the hourly wind series, and maps each   *)
(* stage's outcome to a status code.                                       *)
(*                                                                         *)
(* Python values are records with one tag field, so that values of         *)
(* different Python types can be compared: None is Null, a number is        *)
(* Num(n), a string is Str(s), a list is List(seq), a dict is Dict(f) with  *)
(* f a function from the keys that are present.  Floats are modelled by     *)
(* their integer part.                                                      *)
(***************************************************************************)
EXTENDS Integers, Sequences, FiniteSets, TLC

\* Longest upstream array ('time', 'windspeed_10m', 'winddirection_10m').
MaxLen == 2
\* Longest 'hour' query string, in characters.
MaxHourLen == 2

----------------------------------------------------------------------------
(* Python values *)

Null == [null |-> TRUE]
Unbound == [unbound |-> TRUE]
Num(n) == [num |-> n]
Str(s) == [str |-> s]
List(s) == [list |-> s]
Dict(f) == [dict |-> f]

IsNum(v) == "num" \in DOMAIN v
IsList(v) == "list" \in DOMAIN v
IsDict(v) == "dict" \in DOMAIN v

\* d.get(k, default) on a dict d
dict_get(d, k, default) == IF k \in DOMAIN d THEN d[k] ELSE default

\* the dict holding the keys of the record full whose value is not missing
Missing == [missing |-> TRUE]
MkDict(full) == Dict([k \in {x \in DOMAIN full : full[x] # Missing} |-> full[k]])

min(a, b) == IF a < b THEN a ELSE b

\* outcome of a call: a returned value or a raised exception
Return(v) == [ret |-> v]
Raise(e) == [exc |-> e]
Raised(r) == "exc" \in DOMAIN r

----------------------------------------------------------------------------
(* int(end_hour): optional surrounding blanks, an optional sign, then one   *)
(* or more decimal digits; anything else raises ValueError.                 *)

DigitChars == {"0", "1", "2", "3", "4", "5", "6", "7", "8", "9"}

DigitValue(c) ==
  CASE c = "0" -> 0 [] c = "1" -> 1 [] c = "2" -> 2 [] c = "3" -> 3
    [] c = "4" -> 4 [] c = "5" -> 5 [] c = "6" -> 6 [] c = "7" -> 7
    [] c = "8" -> 8 [] c = "9" -> 9

RECURSIVE strip(_)
strip(s) ==
  IF s = <<>> THEN s
  ELSE IF Head(s) = " " THEN strip(Tail(s))
  ELSE IF s[Len(s)] = " " THEN strip(SubSeq(s, 1, Len(s) - 1))
  ELSE s

Unsigned(s) == IF s # <<>> /\ Head(s) \in {"-", "+"} THEN Tail(s) ELSE s

RECURSIVE DigitsValue(_)
DigitsValue(s) ==
  IF s = <<>> THEN 0
  ELSE 10 * DigitsValue(SubSeq(s, 1, Len(s) - 1)) + DigitValue(s[Len(s)])

int_parses(s) ==
  LET u == Unsigned(strip(s))
  IN  u # <<>> /\ \A i \in 1..Len(u) : u[i] \in DigitChars

\* int with a default of 0 for an unparseable string
int_default(s) ==
  LET t == strip(s)
  IN  IF ~int_parses(s) THEN Return(0)
      ELSE IF Head(t) = "-" THEN Return(0 - DigitsValue(Unsigned(t)))
      ELSE Return(DigitsValue(Unsigned(t)))

int(s) ==
  LET t == strip(s)
  IN  IF ~int_parses(s) THEN Raise("ValueError")
      ELSE IF Head(t) = "-" THEN Return(0 - DigitsValue(Unsigned(t)))
      ELSE Return(DigitsValue(Unsigned(t)))

----------------------------------------------------------------------------
(* random: a draw is modelled by the least and the greatest value the call  *)
(* can return.  random.uniform(a, b) is a + (b-a)*random() with             *)
(* random() < 1, whose integer part lies in a..b-1.  The draws of the       *)
(* hourly loop are taken from two tapes indexed by slot; a slot whose       *)
(* upstream entry exists leaves its draw unused.                            *)

randint(a, b) == {a, b}

random_uniform(a, b) == {a, b - 1}

base_wind_speed == 5

----------------------------------------------------------------------------
(* What the collaborators can deliver. *)

\* geolocator.geocode(city_name): a location, no match (None), or an error
Locations ==
  {[latitude |-> Num(0), longitude |-> Num(73)], Null,
   Raise("GeocoderTimedOut")}

\* requests.exceptions.RequestException: the classes raised by requests.get
\* (transport), raise_for_status (HTTP status) and response.json (a body
\* that is not JSON; a RequestException since requests 2.27)
RequestException == {"ConnectionError", "HTTPError", "JSONDecodeError"}

\* what lines 37-40 / 85-88 can raise
FetchErrors == RequestException

\* the clock read by datetime.now()
Clock == {"2024-01-01 10:00:00"}

\* upstream 'current_weather' objects
CurrentWeatherDicts ==
  {MkDict([temperature |-> b[1], windspeed |-> b[2], winddirection |-> b[3],
           relative_humidity |-> h, pressure_msl |-> p]) :
     b \in {<<Num(25), Num(12), Num(270)>>, <<Missing, Missing, Missing>>},
     h \in {Missing, Num(10), Null},
     p \in {Missing, Num(1100)}}

\* decoded bodies of the current-weather call
CurrentData ==
  {List(<<>>), Dict(<<>>), Dict([current_weather |-> Null])}
    \cup {Dict([current_weather |-> cw]) : cw \in CurrentWeatherDicts}

CurrentResponses ==
  {Raise(e) : e \in FetchErrors} \cup {[data |-> d] : d \in CurrentData}

\* upstream hourly arrays: entry i (from 0) of each array is fixed, the
\* arrays differ in length
UpstreamTimes ==
  <<"T00:00", "T01:00", "T02:00", "T03:00", "T04:00", "T05:00">>
UpstreamTime(n) == List(SubSeq(UpstreamTimes, 1, n))
UpstreamSpeed(n) == List([i \in 1..n |-> 19 + i])
UpstreamDirection(n) == List([i \in 1..n |-> 269 + i])

HourlyDicts ==
  {MkDict([time |-> t, windspeed_10m |-> s, winddirection_10m |-> d]) :
     t \in {Missing, Null} \cup {UpstreamTime(n) : n \in 0..MaxLen},
     s \in {Missing, Null} \cup {UpstreamSpeed(n) : n \in 0..MaxLen},
     d \in {Missing, Null} \cup {UpstreamDirection(n) : n \in 0..MaxLen}}

\* decoded bodies of the hourly call
HourlyData ==
  {List(<<>>), Dict(<<>>), Dict([hourly |-> Null])}
    \cup {Dict([hourly |-> h]) : h \in HourlyDicts}

HourlyResponses ==
  {Raise(e) : e \in FetchErrors} \cup {[data |-> d] : d \in HourlyData}

\* request.query values
Cities == {Null, Str(""), Str("Pune")}
HourChars == {"0", "2", "-", "x"}
Hours ==
  {Null} \cup {Str(s) : s \in UNION {[1..n -> HourChars] : n \in 0..MaxHourLen}}

----------------------------------------------------------------------------
(* The three leaf operations. *)

\* get_coordinates falling back to a default position on a lookup error
get_coordinates_fallback(location) ==
  IF Raised(location) THEN <<Num(0), Num(0)>>
  ELSE IF location # Null THEN <<location.latitude, location.longitude>>
  ELSE <<Null, Null>>

get_coordinates(location) ==
  IF Raised(location) THEN <<Null, Null>>
  ELSE IF location # Null THEN <<location.latitude, location.longitude>>
  ELSE <<Null, Null>>

\* get_current_weather reading humidity and pressure without a default
get_current_weather_nodefault(upstream, now, humidity_draw, pressure_draw) ==
  IF Raised(upstream)
  THEN IF upstream.exc \in RequestException
       THEN Return(Null) ELSE Raise(upstream.exc)
  ELSE LET data == upstream.data IN
    IF ~IsDict(data) THEN Raise("AttributeError")
    ELSE LET current_weather == dict_get(data.dict, "current_weather", Dict(<<>>)) IN
      IF ~IsDict(current_weather) THEN Raise("AttributeError")
      ELSE LET cw == current_weather.dict IN
        Return([date |-> Str(now),
                temperature |-> dict_get(cw, "temperature", Str("N/A")),
                wind_speed |-> dict_get(cw, "windspeed", Str("N/A")),
                wind_direction |-> dict_get(cw, "winddirection", Str("N/A")),
                humidity |-> dict_get(cw, "relative_humidity", Null),
                pressure |-> dict_get(cw, "pressure_msl", Null)])

get_current_weather(upstream, now, humidity_draw, pressure_draw) ==
  IF Raised(upstream)
  THEN IF upstream.exc \in RequestException
       THEN Return(Null) ELSE Raise(upstream.exc)
  ELSE LET data == upstream.data IN
    IF ~IsDict(data) THEN Raise("AttributeError")
    ELSE LET current_weather == dict_get(data.dict, "current_weather", Dict(<<>>)) IN
      IF ~IsDict(current_weather) THEN Raise("AttributeError")
      ELSE LET cw == current_weather.dict IN
        Return([date |-> Str(now),
                temperature |-> dict_get(cw, "temperature", Str("N/A")),
                wind_speed |-> dict_get(cw, "windspeed", Str("N/A")),
                wind_direction |-> dict_get(cw, "winddirection", Str("N/A")),
                humidity |-> dict_get(cw, "relative_humidity", Num(humidity_draw)),
                pressure |-> dict_get(cw, "pressure_msl", Num(pressure_draw))])

\* get_hourly_weather without the end_hour cap
get_hourly_weather_uncapped(upstream, end_hour, speed_draw, direction_draw) ==
  IF Raised(upstream)
  THEN IF upstream.exc \in RequestException
       THEN Return(Null) ELSE Raise(upstream.exc)
  ELSE LET data == upstream.data IN
    IF ~IsDict(data) THEN Raise("AttributeError")
    ELSE LET hourly_data == dict_get(data.dict, "hourly", Dict(<<>>)) IN
      IF ~IsDict(hourly_data) THEN Raise("AttributeError")
      ELSE LET wind_speeds == dict_get(hourly_data.dict, "windspeed_10m", List(<<>>))
               wind_directions == dict_get(hourly_data.dict, "winddirection_10m", List(<<>>))
               times == dict_get(hourly_data.dict, "time", List(<<>>))
           IN
        IF ~IsList(times) THEN Raise("TypeError")
        ELSE LET n == Len(times.list) IN
          IF n > 0 /\ (~IsList(wind_speeds) \/ ~IsList(wind_directions))
          THEN Raise("TypeError")
          ELSE Return(List(
                 [j \in 1..n |->
                    [time |-> times.list[j],
                     wind_speed |->
                       IF j <= Len(wind_speeds.list)
                       THEN wind_speeds.list[j] ELSE speed_draw[j],
                     wind_direction |->
                       IF j <= Len(wind_directions.list)
                       THEN wind_directions.list[j] ELSE direction_draw[j]]]))

\* get_hourly_weather stopping before end_hour
get_hourly_weather_exclusive(upstream, end_hour, speed_draw, direction_draw) ==
  IF Raised(upstream)
  THEN IF upstream.exc \in RequestException
       THEN Return(Null) ELSE Raise(upstream.exc)
  ELSE LET data == upstream.data IN
    IF ~IsDict(data) THEN Raise("AttributeError")
    ELSE LET hourly_data == dict_get(data.dict, "hourly", Dict(<<>>)) IN
      IF ~IsDict(hourly_data) THEN Raise("AttributeError")
      ELSE LET wind_speeds == dict_get(hourly_data.dict, "windspeed_10m", List(<<>>))
               wind_directions == dict_get(hourly_data.dict, "winddirection_10m", List(<<>>))
               times == dict_get(hourly_data.dict, "time", List(<<>>))
           IN
        IF ~IsList(times) THEN Raise("TypeError")
        ELSE LET n == min(end_hour, Len(times.list)) IN
          IF n > 0 /\ (~IsList(wind_speeds) \/ ~IsList(wind_directions))
          THEN Raise("TypeError")
          ELSE Return(List(
                 [j \in 1..n |->
                    [time |-> times.list[j],
                     wind_speed |->
                       IF j <= Len(wind_speeds.list)
                       THEN wind_speeds.list[j] ELSE speed_draw[j],
                     wind_direction |->
                       IF j <= Len(wind_directions.list)
                       THEN wind_directions.list[j] ELSE direction_draw[j]]]))

\* get_hourly_weather substituting both fields when either array is short
get_hourly_weather_joint(upstream, end_hour, speed_draw, direction_draw) ==
  IF Raised(upstream)
  THEN IF upstream.exc \in RequestException
       THEN Return(Null) ELSE Raise(upstream.exc)
  ELSE LET data == upstream.data IN
    IF ~IsDict(data) THEN Raise("AttributeError")
    ELSE LET hourly_data == dict_get(data.dict, "hourly", Dict(<<>>)) IN
      IF ~IsDict(hourly_data) THEN Raise("AttributeError")
      ELSE LET wind_speeds == dict_get(hourly_data.dict, "windspeed_10m", List(<<>>))
               wind_directions == dict_get(hourly_data.dict, "winddirection_10m", List(<<>>))
               times == dict_get(hourly_data.dict, "time", List(<<>>))
           IN
        IF ~IsList(times) THEN Raise("TypeError")
        ELSE LET n == min(end_hour + 1, Len(times.list)) IN
          IF n > 0 /\ (~IsList(wind_speeds) \/ ~IsList(wind_directions))
          THEN Raise("TypeError")
          ELSE Return(List(
                 [j \in 1..n |->
                    [time |-> times.list[j],
                     wind_speed |->
                       IF j <= Len(wind_speeds.list) /\ j <= Len(wind_directions.list)
                       THEN wind_speeds.list[j] ELSE speed_draw[j],
                     wind_direction |->
                       IF j <= Len(wind_speeds.list) /\ j <= Len(wind_directions.list)
                       THEN wind_directions.list[j] ELSE direction_draw[j]]]))

get_hourly_weather(upstream, end_hour, speed_draw, direction_draw) ==
  IF Raised(upstream)
  THEN IF upstream.exc \in RequestException
       THEN Return(Null) ELSE Raise(upstream.exc)
  ELSE LET data == upstream.data IN
    IF ~IsDict(data) THEN Raise("AttributeError")
    ELSE LET hourly_data == dict_get(data.dict, "hourly", Dict(<<>>)) IN
      IF ~IsDict(hourly_data) THEN Raise("AttributeError")
      ELSE LET wind_speeds == dict_get(hourly_data.dict, "windspeed_10m", List(<<>>))
               wind_directions == dict_get(hourly_data.dict, "winddirection_10m", List(<<>>))
               times == dict_get(hourly_data.dict, "time", List(<<>>))
           IN
        IF ~IsList(times) THEN Raise("TypeError")
        ELSE LET n == min(end_hour + 1, Len(times.list)) IN
          IF n > 0 /\ (~IsList(wind_speeds) \/ ~IsList(wind_directions))
          THEN Raise("TypeError")
          ELSE Return(List(
                 [j \in 1..n |->
                    [time |-> times.list[j],
                     wind_speed |->
                       IF j <= Len(wind_speeds.list)
                       THEN wind_speeds.list[j] ELSE speed_draw[j],
                     wind_direction |->
                       IF j <= Len(wind_directions.list)
                       THEN wind_directions.list[j] ELSE direction_draw[j]]]))

\* the slots of the draw tapes: the slots of the 'time' array at which the
\* wind-speed or the wind-direction array has no entry
DrawSlots(upstream) ==
  IF Raised(upstream) \/ ~IsDict(upstream.data) THEN {}
  ELSE LET hourly_data == dict_get(upstream.data.dict, "hourly", Dict(<<>>)) IN
    IF ~IsDict(hourly_data) THEN {}
    ELSE LET wind_speeds == dict_get(hourly_data.dict, "windspeed_10m", List(<<>>))
             wind_directions == dict_get(hourly_data.dict, "winddirection_10m", List(<<>>))
             times == dict_get(hourly_data.dict, "time", List(<<>>))
         IN IF ~IsList(times) \/ ~IsList(wind_speeds) \/ ~IsList(wind_directions)
            THEN {}
            ELSE (min(Len(wind_speeds.list), Len(wind_directions.list)) + 1)
                   ..Len(times.list)

----------------------------------------------------------------------------
(* handler(request), one action per stage.                                  *)

VARIABLES
  request,           \* request.query: [city, hour]
  pc,                \* the stage the handler is at
  location,          \* what geolocator.geocode delivered
  current_response,  \* what the current-weather call delivered
  hourly_response,   \* what the hourly call delivered
  latitude, longitude, current_weather, hourly_weather,  \* handler's locals
  response,          \* the returned value
  raised,            \* the exception that left the handler, with its origin
  calls              \* the leaf operations invoked so far, in order

vars == <<request, pc, location, current_response, hourly_response, latitude,
          longitude, current_weather, hourly_weather, response, raised, calls>>

NoException == [exc |-> "", at |-> ""]

Init ==
  /\ request \in [city : Cities, hour : Hours]
  /\ pc = "validate"
  /\ location = Unbound
  /\ current_response = Unbound
  /\ hourly_response = Unbound
  /\ latitude = Unbound
  /\ longitude = Unbound
  /\ current_weather = Unbound
  /\ hourly_weather = Unbound
  /\ response = Unbound
  /\ raised = NoException
  /\ calls = <<>>

\* Validate answering 400 only when both parameters are absent
Validate_both_absent ==
  /\ pc = "validate"
  /\ IF request.city = Null /\ request.hour = Null
     THEN /\ response' = [statusCode |-> 400,
                          body |-> Str("Please provide both 'city' and 'hour' parameters.")]
          /\ pc' = "returned"
     ELSE /\ pc' = "geocode"
          /\ UNCHANGED response
  /\ UNCHANGED <<request, location, current_response, hourly_response,
                 latitude, longitude, current_weather, hourly_weather,
                 raised, calls>>

\* lines 119-126
Validate ==
  /\ pc = "validate"
  /\ IF request.city = Null \/ request.hour = Null
     THEN /\ response' = [statusCode |-> 400,
                          body |-> Str("Please provide both 'city' and 'hour' parameters.")]
          /\ pc' = "returned"
     ELSE /\ pc' = "geocode"
          /\ UNCHANGED response
  /\ UNCHANGED <<request, location, current_response, hourly_response,
                 latitude, longitude, current_weather, hourly_weather,
                 raised, calls>>

\* lines 128-134
Geocode ==
  /\ pc = "geocode"
  /\ \E loc \in Locations :
       LET coordinates == get_coordinates(loc) IN
       /\ location' = loc
       /\ calls' = Append(calls, "get_coordinates")
       /\ latitude' = coordinates[1]
       /\ longitude' = coordinates[2]
       /\ IF coordinates[1] = Null \/ coordinates[2] = Null
          THEN /\ response' = [statusCode |-> 404, body |-> Str("City not found.")]
               /\ pc' = "returned"
          ELSE /\ pc' = "current"
               /\ UNCHANGED response
  /\ UNCHANGED <<request, current_response, hourly_response, current_weather,
                 hourly_weather, raised>>

\* FetchCurrent going on to the hourly fetch after a failed current fetch
FetchCurrent_no_return ==
  /\ pc = "current"
  /\ \E upstream \in CurrentResponses, now \in Clock,
        humidity_draw \in randint(30, 90), pressure_draw \in randint(980, 1050) :
       LET result == get_current_weather(upstream, now, humidity_draw, pressure_draw) IN
       /\ current_response' = upstream
       /\ calls' = Append(calls, "get_current_weather")
       /\ IF Raised(result)
          THEN /\ raised' = [exc |-> result.exc, at |-> "get_current_weather"]
               /\ pc' = "raised"
               /\ UNCHANGED <<current_weather, response>>
          ELSE /\ current_weather' = result.ret
               /\ UNCHANGED raised
               /\ pc' = "hourly"
               /\ UNCHANGED response
  /\ UNCHANGED <<request, location, hourly_response, latitude, longitude,
                 hourly_weather>>

\* lines 136-141
FetchCurrent ==
  /\ pc = "current"
  /\ \E upstream \in CurrentResponses, now \in Clock,
        humidity_draw \in randint(30, 90), pressure_draw \in randint(980, 1050) :
       LET result == get_current_weather(upstream, now, humidity_draw, pressure_draw) IN
       /\ current_response' = upstream
       /\ calls' = Append(calls, "get_current_weather")
       /\ IF Raised(result)
          THEN /\ raised' = [exc |-> result.exc, at |-> "get_current_weather"]
               /\ pc' = "raised"
               /\ UNCHANGED <<current_weather, response>>
          ELSE /\ current_weather' = result.ret
               /\ UNCHANGED raised
               /\ IF result.ret = Null
                  THEN /\ response' = [statusCode |-> 500,
                                       body |-> Str("Error fetching current weather data.")]
                       /\ pc' = "returned"
                  ELSE /\ pc' = "hourly"
                       /\ UNCHANGED response
  /\ UNCHANGED <<request, location, hourly_response, latitude, longitude,
                 hourly_weather>>

\* FetchHourly answering a failed hourly fetch with the current weather attached
FetchHourly_partial ==
  /\ pc = "hourly"
  /\ LET end_hour == int(request.hour.str) IN
     IF Raised(end_hour)
     THEN /\ raised' = [exc |-> end_hour.exc, at |-> "handler"]
          /\ pc' = "raised"
          /\ UNCHANGED <<hourly_response, hourly_weather, response, calls>>
     ELSE \E upstream \in HourlyResponses :
          \E speed_draw \in [DrawSlots(upstream) ->
                               random_uniform(base_wind_speed - 2, base_wind_speed + 3)],
             direction_draw \in [DrawSlots(upstream) -> random_uniform(0, 360)] :
            LET result == get_hourly_weather(upstream, end_hour.ret, speed_draw,
                                             direction_draw) IN
            /\ hourly_response' = upstream
            /\ calls' = Append(calls, "get_hourly_weather")
            /\ IF Raised(result)
               THEN /\ raised' = [exc |-> result.exc, at |-> "get_hourly_weather"]
                    /\ pc' = "raised"
                    /\ UNCHANGED <<hourly_weather, response>>
               ELSE /\ hourly_weather' = result.ret
                    /\ UNCHANGED raised
                    /\ IF result.ret = Null
                       THEN /\ response' = [statusCode |-> 500,
                                            body |-> [current_weather |-> current_weather,
                                                     error |-> Str("Error fetching hourly weather data.")]]
                            /\ pc' = "returned"
                       ELSE /\ pc' = "assemble"
                            /\ UNCHANGED response
  /\ UNCHANGED <<request, location, current_response, latitude, longitude,
                 current_weather>>

\* lines 143-148
FetchHourly ==
  /\ pc = "hourly"
  /\ LET end_hour == int(request.hour.str) IN
     IF Raised(end_hour)
     THEN /\ raised' = [exc |-> end_hour.exc, at |-> "handler"]
          /\ pc' = "raised"
          /\ UNCHANGED <<hourly_response, hourly_weather, response, calls>>
     ELSE \E upstream \in HourlyResponses :
          \E speed_draw \in [DrawSlots(upstream) ->
                               random_uniform(base_wind_speed - 2, base_wind_speed + 3)],
             direction_draw \in [DrawSlots(upstream) -> random_uniform(0, 360)] :
            LET result == get_hourly_weather(upstream, end_hour.ret, speed_draw,
                                             direction_draw) IN
            /\ hourly_response' = upstream
            /\ calls' = Append(calls, "get_hourly_weather")
            /\ IF Raised(result)
               THEN /\ raised' = [exc |-> result.exc, at |-> "get_hourly_weather"]
                    /\ pc' = "raised"
                    /\ UNCHANGED <<hourly_weather, response>>
               ELSE /\ hourly_weather' = result.ret
                    /\ UNCHANGED raised
                    /\ IF result.ret = Null
                       THEN /\ response' = [statusCode |-> 500,
                                            body |-> Str("Error fetching hourly weather data.")]
                            /\ pc' = "returned"
                       ELSE /\ pc' = "assemble"
                            /\ UNCHANGED response
  /\ UNCHANGED <<request, location, current_response, latitude, longitude,
                 current_weather>>

\* lines 150-156
Assemble ==
  /\ pc = "assemble"
  /\ response' = [statusCode |-> 200,
                  body |-> [current_weather |-> current_weather,
                            hourly_weather |-> hourly_weather]]
  /\ pc' = "returned"
  /\ UNCHANGED <<request, location, current_response, hourly_response,
                 latitude, longitude, current_weather, hourly_weather,
                 raised, calls>>

Next == Validate \/ Geocode \/ FetchCurrent \/ FetchHourly \/ Assemble

Spec == Init /\ [][Next]_vars

----------------------------------------------------------------------------
(* Vocabulary of the properties. *)

BothPresent == request.city # Null /\ request.hour # Null
HourParses == request.hour # Null /\ int_parses(request.hour.str)
EndHour == int(request.hour.str).ret
Terminated == pc \in {"returned", "raised"}
IsCurrentWeather(v) == "date" \in DOMAIN v
Invoked(f) == \E i \in 1..Len(calls) : calls[i] = f

\* the dict delivered under 'current_weather' ({} when the key is absent)
UpstreamCurrent ==
  dict_get(current_response.data.dict, "current_weather", Dict(<<>>)).dict

\* the array delivered under 'hourly'[key] (empty when it is absent or null)
UpstreamArray(key) ==
  LET hourly_data == dict_get(hourly_response.data.dict, "hourly", Dict(<<>>))
      array == dict_get(hourly_data.dict, key, List(<<>>))
  IN  IF IsList(array) THEN array.list ELSE <<>>

BadRequest ==
  [statusCode |-> 400,
   body |-> Str("Please provide both 'city' and 'hour' parameters.")]

----------------------------------------------------------------------------
\* C1: when city and hour are present, hour encodes a non-negative integer
\* and the geocoder and both fetchers returned a value, the handler does not
\* raise and its response is 200 with a body of exactly the current weather
\* and an hourly list of at most hour + 1 points.
C1_SuccessIs200 ==
  (/\ BothPresent /\ HourParses
   /\ IsNum(latitude) /\ IsNum(longitude)
   /\ IsCurrentWeather(current_weather)
   /\ IsList(hourly_weather))
  => /\ EndHour >= 0 =>
          /\ pc \in {"assemble", "returned"}
          /\ raised = NoException
          /\ pc = "returned" =>
               /\ response.statusCode = 200
               /\ DOMAIN response.body = {"current_weather", "hourly_weather"}
               /\ response.body.current_weather = current_weather
               /\ IsCurrentWeather(response.body.current_weather)
               /\ IsList(response.body.hourly_weather)
               /\ Len(response.body.hourly_weather.list) <= EndHour + 1

C1_Witness ==
  /\ pc = "returned" /\ HourParses /\ EndHour >= 0
  /\ response.statusCode = 200
  /\ Len(response.body.hourly_weather.list) = EndHour + 1
  /\ Len(UpstreamArray("time")) > EndHour + 1

\* C2: once validation has run on a request lacking city or hour, the handler
\* has returned 400 with the fixed message and invoked nothing, whatever the
\* other parameter is.
C2_MissingIs400 ==
  (pc # "validate" /\ (request.city = Null \/ request.hour = Null))
  => /\ pc = "returned"
     /\ response = BadRequest
     /\ calls = <<>>
     /\ raised = NoException

C2_Witness ==
  /\ pc = "returned"
  /\ request.city = Null
  /\ request.hour # Null /\ ~int_parses(request.hour.str)
  /\ response = BadRequest

\* C3: when the geocoder found no match or its lookup raised, the handler has
\* returned 404 and get_coordinates is the only operation ever invoked.
C3_NoMatchIs404 ==
  (location = Null \/ Raised(location))
  => /\ BothPresent
     /\ pc = "returned"
     /\ response = [statusCode |-> 404, body |-> Str("City not found.")]
     /\ calls = <<"get_coordinates">>
     /\ raised = NoException

C3_Witness ==
  /\ Raised(location)
  /\ pc = "returned"
  /\ response.statusCode = 404
  /\ ~Invoked("get_current_weather") /\ ~Invoked("get_hourly_weather")

\* C4: when the current-weather fetch yielded None the handler has returned
\* 500 without invoking get_hourly_weather; get_hourly_weather is invoked
\* only after get_current_weather has returned a value.
C4_CurrentFailureIs500 ==
  /\ current_weather = Null
       => /\ pc = "returned"
          /\ response = [statusCode |-> 500,
                         body |-> Str("Error fetching current weather data.")]
          /\ ~Invoked("get_hourly_weather")
  /\ Invoked("get_hourly_weather")
       => /\ IsCurrentWeather(current_weather)
          /\ calls = <<"get_coordinates", "get_current_weather", "get_hourly_weather">>

C4_Witness ==
  /\ current_weather = Null
  /\ IsNum(latitude)
  /\ pc = "returned"
  /\ response.statusCode = 500

\* C5: when the hourly fetch yielded None after the current fetch succeeded,
\* the handler has returned 500 whose body is the fixed message alone.
C5_HourlyFailureIs500 ==
  hourly_weather = Null
  => /\ IsCurrentWeather(current_weather)
     /\ pc = "returned"
     /\ response = [statusCode |-> 500,
                    body |-> Str("Error fetching hourly weather data.")]

C5_Witness ==
  /\ hourly_weather = Null
  /\ IsCurrentWeather(current_weather)
  /\ pc = "returned"
  /\ response.statusCode = 500

\* C6: for a non-negative end_hour, a list returned by get_hourly_weather has
\* exactly min(end_hour + 1, n) points, n the length of the upstream 'time'
\* array, and point i carries time[i].
C6_HourlyLength ==
  (IsList(hourly_weather) /\ EndHour >= 0)
  => LET times == UpstreamArray("time")
         points == hourly_weather.list
     IN  /\ Len(points) = min(EndHour + 1, Len(times))
         /\ \A j \in 1..Len(points) : points[j].time = times[j]

C6_Witness ==
  /\ IsList(hourly_weather)
  /\ EndHour + 1 > Len(UpstreamArray("time"))
  /\ Len(hourly_weather.list) = Len(UpstreamArray("time"))
  /\ Len(hourly_weather.list) = MaxLen

\* C7 as stated: a point carries the two upstream values when both arrays
\* have an entry at its slot, and otherwise a wind speed within [3, 8] and a
\* wind direction within [0, 360).
C7_JointSubstitution ==
  IsList(hourly_weather)
  => LET speeds == UpstreamArray("windspeed_10m")
         directions == UpstreamArray("winddirection_10m")
         points == hourly_weather.list
     IN  \A j \in 1..Len(points) :
           IF j <= Len(speeds) /\ j <= Len(directions)
           THEN /\ points[j].wind_speed = speeds[j]
                /\ points[j].wind_direction = directions[j]
           ELSE /\ points[j].wind_speed \in 3..8
                /\ points[j].wind_direction \in 0..359

\* C7 amended: each field on its own: the wind speed is the upstream entry
\* when the wind-speed array has one at the slot and otherwise lies within
\* [3, 8]; the wind direction is the upstream entry when the wind-direction
\* array has one at the slot and otherwise lies within [0, 360).
C7_IndependentSubstitution ==
  IsList(hourly_weather)
  => LET speeds == UpstreamArray("windspeed_10m")
         directions == UpstreamArray("winddirection_10m")
         points == hourly_weather.list
     IN  \A j \in 1..Len(points) :
           /\ IF j <= Len(speeds)
              THEN points[j].wind_speed = speeds[j]
              ELSE points[j].wind_speed \in 3..8
           /\ IF j <= Len(directions)
              THEN points[j].wind_direction = directions[j]
              ELSE points[j].wind_direction \in 0..359

C7_Witness ==
  /\ IsList(hourly_weather)
  /\ Len(hourly_weather.list) >= 1
  /\ Len(UpstreamArray("windspeed_10m")) >= 1
  /\ Len(UpstreamArray("winddirection_10m")) = 0
  /\ hourly_weather.list[1].wind_speed = UpstreamArray("windspeed_10m")[1]
  /\ hourly_weather.list[1].wind_direction \in 0..359

\* C8 as stated: a request with both parameters present and an unparseable
\* hour never gets a response: the handler ends by raising.
C8_AlwaysAborts ==
  (BothPresent /\ ~HourParses /\ Terminated)
  => /\ pc = "raised"
     /\ response = Unbound
     /\ raised # NoException

\* C8 amended: with both parameters present and an unparseable hour,
\* get_hourly_weather is never invoked; the handler returns 404 when the
\* geocoder yields None, returns 500 when the current fetch yields None, and
\* raises the uncaught ValueError of int(), returning nothing, when the
\* geocoder and the current fetch both returned a value.
C8_AbortsAfterCurrent ==
  (BothPresent /\ ~HourParses)
  => /\ ~Invoked("get_hourly_weather")
     /\ pc # "assemble"
     /\ (Terminated /\ latitude = Null) =>
           pc = "returned" /\ response.statusCode = 404
     /\ (Terminated /\ current_weather = Null) =>
           pc = "returned" /\ response.statusCode = 500
     /\ (Terminated /\ IsCurrentWeather(current_weather)) =>
           /\ pc = "raised"
           /\ raised = [exc |-> "ValueError", at |-> "handler"]
           /\ response = Unbound

C8_Witness ==
  /\ BothPresent /\ ~HourParses
  /\ IsCurrentWeather(current_weather)
  /\ pc = "raised"
  /\ raised = [exc |-> "ValueError", at |-> "handler"]
  /\ response = Unbound

\* C9 as stated: no failure inside get_current_weather or get_hourly_weather
\* leaves the fetcher as an exception, and a fetch that failed is answered
\* with 500.
C9_FetcherFailuresAbsorbed ==
  /\ raised.at \notin {"get_current_weather", "get_hourly_weather"}
  /\ (Terminated /\ (Raised(current_response) \/ Raised(hourly_response)))
       => pc = "returned" /\ response.statusCode = 500

\* C10: a returned CurrentWeather has, for humidity and for pressure
\* separately, the upstream value when the upstream object has the field and
\* otherwise a number within [30, 90], respectively [980, 1050].
C10_Placeholders ==
  IsCurrentWeather(current_weather)
  => LET cw == UpstreamCurrent IN
     /\ IF "relative_humidity" \in DOMAIN cw
        THEN current_weather.humidity = cw.relative_humidity
        ELSE /\ IsNum(current_weather.humidity)
             /\ current_weather.humidity.num \in 30..90
     /\ IF "pressure_msl" \in DOMAIN cw
        THEN current_weather.pressure = cw.pressure_msl
        ELSE /\ IsNum(current_weather.pressure)
             /\ current_weather.pressure.num \in 980..1050

C10_Witness ==
  /\ IsCurrentWeather(current_weather)
  /\ "relative_humidity" \notin DOMAIN UpstreamCurrent
  /\ "pressure_msl" \in DOMAIN UpstreamCurrent
  /\ current_weather.humidity = Num(90)
  /\ current_weather.pressure = UpstreamCurrent.pressure_msl

====
